---- MODULE Spec2Model ----
(***************************************************************************)
(* A model of AIS_ViewCube (src/src/AIS/AIS_ViewCube.cxx): the style       *)
(* parameters of the cube and the camera animation the cube drives when    *)
(* one of its parts is clicked.                                            *)
(*                                                                         *)
(* Reals are fixed-point integers.  Style lengths and fractions are in     *)
(* units of 1e-7, so that Precision::Confusion() is one unit.  Times are   *)
(* in quarters of a second.  Directions (gp_Dir) are integer vectors       *)
(* reduced by the gcd of their components: only the ray they span counts.  *)
(***************************************************************************)
EXTENDS Integers, Sequences, FiniteSets, TLC

VARIABLES
  style,          \* the style members of AIS_ViewCube (mySize, myRoundRadius, ...)
  myToUpdate,     \* SetToUpdate() was called since the presentation was last computed
  builtStyle,     \* the style the presentation was last computed from
  lastError,      \* the exception the last call raised, "fault" if it ended in one, or "none"
  opts,           \* myToAutoStartAnim, myIsFixedAnimation, myToFitSelected, myToResetCameraUp, myDuration
  myStartState,   \* Graphic3d_Camera myStartState
  myEndState,     \* Graphic3d_Camera myEndState
  anim,           \* myViewAnimation (AIS_AnimationCamera): state, attached view, own duration
  timer,          \* the AIS_AnimationTimer of myViewAnimation
  view,           \* the V3d_View: its camera and its immediate-update flag
  pc,             \* "idle", "loop" inside the for-loop of HandleClick, "fault" after a fault
  sessions,       \* the sessions StartAnimation has started so far
  lastCall        \* the last call: its name, arguments, result and the notifications it fired

vars == <<style, myToUpdate, builtStyle, lastError, opts, myStartState, myEndState,
          anim, timer, view, pc, sessions, lastCall>>

styleVars == <<style, myToUpdate, builtStyle>>
animVars == <<opts, myStartState, myEndState, anim, timer, view, pc, sessions>>

-----------------------------------------------------------------------------
(* Bounds of the model *)

\* The timer is observed up to this many quarters of a second.
MaxTime == 3
\* At most this many sessions are started in a run.
MaxSessions == 2

-----------------------------------------------------------------------------
(* Fixed-point reals *)

\* 1.0 in units of 1e-7
Unit == 10 * 1000 * 1000
\* Precision::Confusion() = 1e-7
Confusion == 1

Abs(x) == IF x < 0 THEN -x ELSE x
Min(a, b) == IF a < b THEN a ELSE b
Max(a, b) == IF a > b THEN a ELSE b

\* theValue * (thePercent / 100) for the factors 0.15, 0.1 and 0.16 of SetSize, to the
\* unit below; the product is taken in two parts, each within the integers of the checker.
Percent(theValue, thePercent) ==
  (theValue \div 100) * thePercent + ((theValue % 100) * thePercent) \div 100

\* What Percent leaves below the unit, in hundredths of a unit: a percentage of a whole
\* number of units is a whole number of hundredths.
PercentRest(theValue, thePercent) == ((theValue % 100) * thePercent) % 100

\* A length with its part below the unit: units + rest / 100 units, 0 <= rest < 100.
Fine(theUnits, theRest) == [units |-> theUnits, rest |-> theRest]

\* theValue > 0.0 of a length with its part below the unit.  The units are the floor
\* of the value, so that -0.15 units is Fine(-1, 85), which is below zero.
IsPositive(theValue) == theValue.units > 0 \/ (theValue.units = 0 /\ theValue.rest > 0)

\* The members which a setter compares with Precision::Confusion() before it assigns.
Members == {"mySize", "myBoxFacetExtension", "myAxesPadding", "fontHeight", "myRoundRadius"}

\* The members SetSize compares.
SizeMembers == Members \ {"myRoundRadius"}

\* A rounding names the members whose comparison comes out "greater" when the old and
\* the new value are exactly Confusion apart: there the outcome is that of the rounding
\* of the doubles (1.0000001 - 1.0 is above 1e-7, 70.0000001 - 70.0 is below it).
TieRoundings(theMembers) == SUBSET theMembers

\* Abs (theOld - theNew) > Precision::Confusion() of the setters.  With one of the two
\* values zero the difference is the other value itself, which is not above Confusion
\* when it equals it.
IsChange(theOld, theNew, theIsGreaterOnTie) ==
  IF Abs(theOld.units - theNew.units) > 2 * Confusion
  THEN TRUE
  ELSE LET d == Abs(100 * (theOld.units - theNew.units) + theOld.rest - theNew.rest)
       IN  IF d # 100 * Confusion THEN d > 100 * Confusion
           ELSE IF theOld = Fine(0, 0) \/ theNew = Fine(0, 0) THEN FALSE
           ELSE theIsGreaterOnTie

-----------------------------------------------------------------------------
(* Style parameters *)

\* The members the constructor's initializer list sets; the text height is that of
\* setDefaultAttributes().  The lengths are in units; the facet extension, the axes
\* padding and the text height, which SetSize derives as percentages, have their part
\* below the unit in `rest`, in hundredths of a unit.
ConstructedStyle ==
  [ mySize              |-> Unit,
    myBoxEdgeMinSize    |-> 2 * Unit,
    myBoxEdgeGap        |-> 0,
    myBoxFacetExtension |-> Unit,
    myAxesPadding       |-> Unit,
    myCornerMinSize     |-> 2 * Unit,
    myRoundRadius       |-> 0,
    myToDisplayAxes     |-> TRUE,
    myToDisplayEdges    |-> TRUE,
    myToDisplayVertices |-> TRUE,
    myIsYup             |-> FALSE,
    fontHeight          |-> 16 * Unit,
    rest                |-> [myBoxFacetExtension |-> 0, myAxesPadding |-> 0, fontHeight |-> 0] ]

\* A style and whether SetToUpdate() has been called on the way to it.
Styled(theStyle, theToUpdate) == [s |-> theStyle, upd |-> theToUpdate]

\* SetBoxFacetExtension (header): assigns and invalidates only on a change above Confusion.
SetBoxFacetExtension(st, theValue, theRounding) ==
  IF IsChange(Fine(st.s.myBoxFacetExtension, st.s.rest.myBoxFacetExtension), theValue,
              "myBoxFacetExtension" \in theRounding)
  THEN Styled([st.s EXCEPT !.myBoxFacetExtension = theValue.units,
                           !.rest.myBoxFacetExtension = theValue.rest], TRUE)
  ELSE st

\* SetAxesPadding (header): as SetBoxFacetExtension.
SetAxesPadding(st, theValue, theRounding) ==
  IF IsChange(Fine(st.s.myAxesPadding, st.s.rest.myAxesPadding), theValue,
              "myAxesPadding" \in theRounding)
  THEN Styled([st.s EXCEPT !.myAxesPadding = theValue.units,
                           !.rest.myAxesPadding = theValue.rest], TRUE)
  ELSE st

\* SetFontHeight (header): as SetBoxFacetExtension, on the text aspect's height.
SetFontHeight(st, theValue, theRounding) ==
  IF IsChange(Fine(st.s.fontHeight, st.s.rest.fontHeight), theValue,
              "fontHeight" \in theRounding)
  THEN Styled([st.s EXCEPT !.fontHeight = theValue.units,
                           !.rest.fontHeight = theValue.rest], TRUE)
  ELSE st

\* AIS_ViewCube::SetSize as a function of the style.  The facet extension and the axes
\* padding follow the size only while they are above zero: once a size that is not
\* positive has made them zero or negative, a later size leaves them as they are.
SetSizeResult(st, theValue, theToAdaptAnother, theRounding) ==
  LET isNewSize == IsChange(Fine(st.s.mySize, 0), Fine(theValue, 0), "mySize" \in theRounding)
      s1 == Styled([st.s EXCEPT !.mySize = theValue], st.upd)
      s2 == IF theToAdaptAnother
               /\ IsPositive(Fine(s1.s.myBoxFacetExtension, s1.s.rest.myBoxFacetExtension))
            THEN SetBoxFacetExtension(s1, Fine(Percent(theValue, 15), PercentRest(theValue, 15)),
                                      theRounding)
            ELSE s1
      s3 == IF theToAdaptAnother
               /\ IsPositive(Fine(s2.s.myAxesPadding, s2.s.rest.myAxesPadding))
            THEN SetAxesPadding(s2, Fine(Percent(theValue, 10), PercentRest(theValue, 10)),
                                theRounding)
            ELSE s2
      s4 == IF theToAdaptAnother
            THEN SetFontHeight(s3, Fine(Percent(theValue, 16), PercentRest(theValue, 16)),
                               theRounding)
            ELSE s3
  IN  IF isNewSize THEN Styled(s4.s, TRUE) ELSE s4

\* The style when the constructor returns: it ends with SetSize (70.0), no comparison
\* of which is a tie.
InitStyle == SetSizeResult(Styled(ConstructedStyle, FALSE), 70 * Unit, TRUE, {})

\* The upper limit 0.5 of the round radius
RoundRadiusMax == 5 * 1000 * 1000

\* The condition of Standard_OutOfRange_Raise_if in SetRoundRadius
RoundRadiusOutOfRange(theValue) == theValue < 0 \/ theValue > RoundRadiusMax

\* Standard_OutOfRange_Raise_if (Standard_OutOfRange.hxx): raises Standard_OutOfRange
\* when its condition holds, and the statements after it do not run.
Standard_OutOfRange_Raise_if(theCondition) ==
  IF theCondition THEN "Standard_OutOfRange" ELSE "none"

\* A SetRoundRadius that has lost its range check.
SetRoundRadiusResult_Unchecked(st, theValue, theRounding) ==
  IF IsChange(Fine(st.s.myRoundRadius, 0), Fine(theValue, 0), "myRoundRadius" \in theRounding)
  THEN [s |-> [st.s EXCEPT !.myRoundRadius = theValue], upd |-> TRUE, err |-> "none"]
  ELSE [s |-> st.s, upd |-> st.upd, err |-> "none"]

\* A SetRoundRadius that stores the value before it checks the range.
SetRoundRadiusResult_StoreFirst(st, theValue, theRounding) ==
  IF IsChange(Fine(st.s.myRoundRadius, 0), Fine(theValue, 0), "myRoundRadius" \in theRounding)
  THEN [s |-> [st.s EXCEPT !.myRoundRadius = theValue], upd |-> TRUE,
        err |-> Standard_OutOfRange_Raise_if(RoundRadiusOutOfRange(theValue))]
  ELSE [s |-> st.s, upd |-> st.upd,
        err |-> Standard_OutOfRange_Raise_if(RoundRadiusOutOfRange(theValue))]

\* AIS_ViewCube::SetRoundRadius as a function of the style: the new style, the update
\* flag and the exception raised.
SetRoundRadiusResult(st, theValue, theRounding) ==
  IF Standard_OutOfRange_Raise_if(RoundRadiusOutOfRange(theValue)) # "none"
  THEN [s |-> st.s, upd |-> st.upd, err |-> "Standard_OutOfRange"]
  ELSE IF IsChange(Fine(st.s.myRoundRadius, 0), Fine(theValue, 0), "myRoundRadius" \in theRounding)
       THEN [s |-> [st.s EXCEPT !.myRoundRadius = theValue], upd |-> TRUE, err |-> "none"]
       ELSE [s |-> st.s, upd |-> st.upd, err |-> "none"]

\* AIS_ViewCube::SetYup; the labels of the sides are not modelled.
SetYupResult(st, theIsYup) ==
  IF st.s.myIsYup = theIsYup THEN st
  ELSE Styled([st.s EXCEPT !.myIsYup = theIsYup], TRUE)

\* AIS_ViewCube::ResetStyles.  UnsetAttributes() (header) runs setDefaultAttributes(),
\* which sets the text height to 16, and calls SetToUpdate().
ResetStylesResult(st, theRounding) ==
  LET s0 == [st.s EXCEPT !.fontHeight = 16 * Unit,
                         !.rest = ConstructedStyle.rest,
                         !.myBoxEdgeMinSize = 2 * Unit,
                         !.myCornerMinSize = 2 * Unit,
                         !.myBoxEdgeGap = 0,
                         !.myRoundRadius = 0,
                         !.myToDisplayAxes = TRUE,
                         !.myToDisplayEdges = TRUE,
                         !.myToDisplayVertices = TRUE,
                         !.myBoxFacetExtension = Unit,
                         !.myAxesPadding = Unit]
  IN  SetSizeResult(Styled(s0, TRUE), 70 * Unit, TRUE, theRounding)

\* The arguments the style setters are called with.  The sizes are one that is not
\* positive, after which the extension and the padding no longer follow the size, one
\* at Confusion from the constructed size and one at ten times Confusion from it.
SizeInputs == {-1, 70 * Unit + 1, 70 * Unit + 10}
RadiusInputs == {-1, 0, RoundRadiusMax, RoundRadiusMax + 1}

-----------------------------------------------------------------------------
(* Vectors and directions *)

Vec(x, y, z) == <<x, y, z>>
Dot(a, b) == a[1] * b[1] + a[2] * b[2] + a[3] * b[3]
Cross(a, b) == <<a[2] * b[3] - a[3] * b[2], a[3] * b[1] - a[1] * b[3], a[1] * b[2] - a[2] * b[1]>>
Neg(a) == <<-a[1], -a[2], -a[3]>>
Plus(a, b) == <<a[1] + b[1], a[2] + b[2], a[3] + b[3]>>
Times(k, a) == <<k * a[1], k * a[2], k * a[3]>>
Norm2(a) == Dot(a, a)
ZeroVec == <<0, 0, 0>>

RECURSIVE Gcd(_, _)
Gcd(a, b) == IF b = 0 THEN a ELSE Gcd(b, a % b)

\* The representative of the direction of a: a divided by the gcd of its components.
\* The vector and its divisor are bound by quantifiers, which evaluates each once.
Reduce(a) ==
  CHOOSE r \in { IF g = 0 THEN v ELSE <<v[1] \div g, v[2] \div g, v[3] \div g>> :
                   <<v, g>> \in { <<w, Gcd(Abs(w[1]), Gcd(Abs(w[2]), Abs(w[3])))>> : w \in {a} } } : TRUE

\* gp_Dir::IsEqual within Precision::Angular(): the same ray.
IsEqualDir(a, b) == Cross(a, b) = ZeroVec /\ Dot(a, b) > 0

\* Some direction normal to d.
Perp(d) == IF d[1] # 0 \/ d[2] # 0 THEN Reduce(<<-d[2], d[1], 0>>) ELSE <<1, 0, 0>>

\* Graphic3d_Camera::OrthogonalizeUp: the part of theUp normal to theDir.
OrthogonalizedUp(theUp, theDir) ==
  CHOOSE r \in { Reduce(Plus(Times(Norm2(d), u), Times(-Dot(u, d), d))) :
                   <<u, d>> \in {<<theUp, theDir>>} } : TRUE

\* A vector scaled by 1/sqrt(k): v is the integer part, k the square of the divisor.
\* theUp rotated about the axis theAxis (normal to it) by 0, 90, 180 and 270 degrees;
\* the four have the same length.
Rotated(theUp, theAxis, theQuarter) ==
  CASE theQuarter = 0 -> [v |-> theUp, k |-> 1]
    [] theQuarter = 1 -> [v |-> Cross(theAxis, theUp), k |-> Norm2(theAxis)]
    [] theQuarter = 2 -> [v |-> Neg(theUp), k |-> 1]
    [] theQuarter = 3 -> [v |-> Neg(Cross(theAxis, theUp)), k |-> Norm2(theAxis)]

\* p / sqrt(k) > q / sqrt(l), for k, l > 0
GreaterScaled(p, k, q, l) ==
  IF p >= 0
  THEN IF q < 0 THEN TRUE ELSE p * p * l > q * q * k
  ELSE IF q >= 0 THEN FALSE ELSE p * p * l < q * q * k

\* gp_Dir::Angle: the angle of candidate a to theOld is smaller than that of candidate b,
\* that is, its cosine is greater (a and b have the same length).
AngleLess(a, b, theOld) == GreaterScaled(Dot(a.v, theOld), a.k, Dot(b.v, theOld), b.k)

-----------------------------------------------------------------------------
(* V3d: orientations and the view *)

\* V3d_TypeOfOrientation, V3d_Xpos (0) to V3d_XnegYnegZneg (25), with V3d::GetProjAxis.
ProjAxes ==
  << <<1, 0, 0>>, <<0, 1, 0>>, <<0, 0, 1>>, <<-1, 0, 0>>, <<0, -1, 0>>, <<0, 0, -1>>,
     <<1, 1, 0>>, <<1, 0, 1>>, <<0, 1, 1>>, <<-1, -1, 0>>, <<-1, 1, 0>>, <<-1, 0, -1>>,
     <<-1, 0, 1>>, <<0, -1, -1>>, <<0, -1, 1>>, <<1, -1, 0>>, <<1, 0, -1>>, <<0, 1, -1>>,
     <<1, 1, 1>>, <<1, -1, 1>>, <<1, 1, -1>>, <<-1, 1, 1>>, <<1, -1, -1>>, <<-1, 1, -1>>,
     <<-1, -1, 1>>, <<-1, -1, -1>> >>

Orientations == 0 .. 25
GetProjAxis(theOrient) == ProjAxes[theOrient + 1]

\* The default up of V3d_View::SetProj for an orientation.
DefaultUp(theOrient, theIsYup) ==
  LET a == GetProjAxis(theOrient)
  IN  IF theIsYup
      THEN IF a = <<0, 1, 0>> \/ a = <<0, -1, 0>> THEN <<0, 0, -1>> ELSE <<0, 1, 0>>
      ELSE IF a = <<0, 0, 1>> THEN <<0, 1, 0>>
           ELSE IF a = <<0, 0, -1>> THEN <<0, -1, 0>> ELSE <<0, 0, 1>>

\* A camera pose: view direction (eye to centre), up, projection scale and centre.
Pose(theDir, theUp, theScale, theCenter) ==
  [dir |-> theDir, up |-> theUp, scale |-> theScale, center |-> theCenter]

\* V3d_View::SetProj: look against the projection axis with the default up made normal
\* to the direction; scale and panning are retained.
SetProj(theCam, theOrient, theIsYup) ==
  LET d == Neg(GetProjAxis(theOrient))
  IN  [theCam EXCEPT !.dir = d, !.up = OrthogonalizedUp(DefaultUp(theOrient, theIsYup), d)]

\* The bounding box V3d_View::FitAll frames: that of the selection or of the scene.
SceneBox == [scale |-> 5, center |-> 3]
SelectionBox == [scale |-> 9, center |-> 7]

\* V3d_View::FitAll (theBox, 0.01, false): scale and centre frame the box, the
\* orientation is kept.
FitAll(theCam, theBox) == [theCam EXCEPT !.scale = theBox.scale, !.center = theBox.center]

\* Graphic3d_CameraLerp::Interpolate at theT / theD of the way from theStart to theEnd.
LerpInt(a, b, theT, theD) == (a * (theD - theT) + b * theT) \div theD
LerpDir(a, b, theT, theD) == Reduce(Plus(Times(theD - theT, a), Times(theT, b)))
Interpolate(theStart, theEnd, theT, theD) ==
  IF theT <= 0 THEN theStart
  ELSE IF theT >= theD THEN theEnd
  ELSE LET d0 == LerpDir(theStart.dir, theEnd.dir, theT, theD)
           d  == IF d0 = ZeroVec THEN Reduce(Cross(theStart.dir, theStart.up)) ELSE d0
           u0 == LerpDir(theStart.up, theEnd.up, theT, theD)
           u1 == OrthogonalizedUp(IF u0 = ZeroVec THEN theStart.up ELSE u0, d)
           u  == IF u1 = ZeroVec THEN Perp(d) ELSE u1
       IN  Pose(d, u, LerpInt(theStart.scale, theEnd.scale, theT, theD),
                LerpInt(theStart.center, theEnd.center, theT, theD))


-----------------------------------------------------------------------------
(* The camera animation: AIS_AnimationCamera and its timer *)

\* myDuration (0.5) in quarters of a second
DefaultDuration == 2

\* A picked owner: <<>> is the null handle, <<o>> an AIS_ViewCubeOwner of orientation o.
NullOwner == <<>>
Owner(theOrient) == <<theOrient>>
MainOrientation(theOwner) == theOwner[1]

\* The part of the widget the animation works on.
AnimState(theStart, theEnd, theAnim, theTimer, theView) ==
  [start |-> theStart, end |-> theEnd, anim |-> theAnim, timer |-> theTimer, view |-> theView]

Current == AnimState(myStartState, myEndState, anim, timer, view)

\* AIS_Animation::IsStopped
IsStopped(a) == a.anim.state # "Started"

\* AIS_ViewCube::HasAnimation
HasAnimationIn(a) == ~IsStopped(a)
HasAnimation == HasAnimationIn(Current)

\* AIS_Animation::Update (thePts) with AIS_AnimationCamera::update: nothing when stopped;
\* else the view's camera is set to the pose interpolated at the elapsed fraction
\* (clamped to the end), and the animation stops itself once its duration has elapsed.
AnimUpdate(a, thePts) ==
  IF IsStopped(a) THEN a
  ELSE LET d == a.anim.ownDuration
           t == IF d > 0 THEN Min(Max(thePts, 0), d) ELSE 0
           cam == IF a.anim.view /\ a.anim.bound
                  THEN Interpolate(a.start, a.end, t, d) ELSE a.view.camera
       IN  [a EXCEPT !.anim.state = IF thePts >= d THEN "Stopped" ELSE "Started",
                     !.view.camera = cam]

\* AIS_Animation::StartTimer (0.0, 1.0, true, false): the timer is stopped and sought to
\* 0, the animation started and updated at 0, and the timer started.
StartTimer(a) ==
  LET a1 == [a EXCEPT !.timer = [started |-> FALSE, elapsed |-> 0], !.anim.state = "Started"]
      a2 == AnimUpdate(a1, 0)
  IN  [a2 EXCEPT !.timer.started = TRUE]

\* AIS_Animation::Stop: the state is Stopped and the timer stopped and reset.
StopAnim(a) == [a EXCEPT !.anim.state = "Stopped", !.timer = [started |-> FALSE, elapsed |-> 0]]

\* AIS_Animation::UpdateTimer: update at the timer's elapsed time, which is returned.
UpdateTimer(a) == AnimUpdate(a, a.timer.elapsed)

-----------------------------------------------------------------------------
(* AIS_ViewCube::StartAnimation *)

\* The outcomes of the comparison "aBestAngle > anAngle" on doubles: the iterations of
\* the loop at which an angle equal to the best one so far is computed as the smaller.
\* With the empty set the comparison is exact.
Roundings == SUBSET (1 .. 3)

\* The loop over anUpList from theIter on: a candidate replaces the best one so far when
\* its angle to the old up is smaller, or equal and computed as smaller.
RECURSIVE BestQuarterFrom(_, _, _, _, _, _)
BestQuarterFrom(theUp, theAxis, theOld, theBest, theIter, theRounding) ==
  IF theIter > 3 THEN theBest
  ELSE BestQuarterFrom(theUp, theAxis, theOld,
         IF \/ AngleLess(Rotated(theUp, theAxis, theIter), Rotated(theUp, theAxis, theBest), theOld)
            \/ /\ theIter \in theRounding
               /\ ~AngleLess(Rotated(theUp, theAxis, theBest), Rotated(theUp, theAxis, theIter), theOld)
         THEN theIter ELSE theBest,
         theIter + 1, theRounding)

\* A search that keeps the first candidate, the up of SetProj.
ClosestUp_First(theUp, theAxis, theOld, theRounding) == Reduce(theUp)

\* anUpBest: aBestAngle starts infinite, so candidate 0 is taken first.
ClosestUp(theUp, theAxis, theOld, theRounding) ==
  Reduce(Rotated(theUp, theAxis, BestQuarterFrom(theUp, theAxis, theOld, 0, 1, theRounding)).v)

\* The box StartAnimation fits: that of the selection when myToFitSelected and there is
\* one, else the scene's.
FitBox(theToFitSelected, theHasSelection) ==
  IF theToFitSelected /\ theHasSelection THEN SelectionBox ELSE SceneBox

\* A search for the closest up that is made for an unchanged direction too.
KeepsDefaultUp_Never(theToResetUp, theNewDir, theOldDir) == theToResetUp

\* The default up of SetProj is kept when myToResetCameraUp is set or the new direction
\* equals that of the camera.
KeepsDefaultUp(theToResetUp, theNewDir, theOldDir) ==
  theToResetUp \/ IsEqualDir(theNewDir, theOldDir)

\* The end pose StartAnimation computes on the view's camera from the pose theCam.
EndPose(theCam, theOrient, theIsYup, theToResetUp, theBox, theRounding) ==
  LET proj == SetProj(theCam, theOrient, theIsYup)
      aNewDir == proj.dir
      up == IF ~KeepsDefaultUp(theToResetUp, aNewDir, theCam.dir)
            THEN ClosestUp(proj.up, aNewDir, theCam.up, theRounding)
            ELSE proj.up
  IN  FitAll([proj EXCEPT !.up = up], theBox)

\* The guard of StartAnimation: a null owner or no last active view.
StartGuard(theOwner, theHasView) == theOwner = NullOwner \/ ~theHasView

\* A start pose that is kept while a session runs.
CapturedStart_Resume(a) == IF HasAnimationIn(a) THEN a.start ELSE a.view.camera

\* myStartState->Copy (aView->Camera()): the start pose is the view's camera.
CapturedStart(a) == a.view.camera

\* A view whose immediate-update flag is left off.
RestoredView_FlagOff(theBackupCamera, wasImmediateUpdate) ==
  [camera |-> theBackupCamera, immediateUpdate |-> FALSE]

\* aView->SetCamera (aBackupCamera); aView->SetImmediateUpdate (wasImmediateUpdate)
RestoredView(theBackupCamera, wasImmediateUpdate) ==
  [camera |-> theBackupCamera, immediateUpdate |-> wasImmediateUpdate]

\* AIS_ViewCube::StartAnimation on the state a.  theHasView: the context has a last
\* active view; theHasSelection: the bounding box of the selection is not void;
\* theRounding: how the search for the closest up compares equal angles.
StartAnimationOn(a, theOwner, theHasView, theHasSelection, theRounding) ==
  IF StartGuard(theOwner, theHasView) THEN a
  ELSE LET aBackupCamera == a.view.camera
           wasImmediateUpdate == a.view.immediateUpdate
           \* the view works on myEndState with immediate updates off
           endState == EndPose(a.view.camera, MainOrientation(theOwner), style.myIsYup,
                               opts.myToResetCameraUp,
                               FitBox(opts.myToFitSelected, theHasSelection), theRounding)
           a1 == [a EXCEPT !.start = CapturedStart(a), !.end = endState,
                           !.view = RestoredView(aBackupCamera, wasImmediateUpdate)]
           a2 == [a1 EXCEPT !.anim.view = TRUE, !.anim.bound = TRUE,
                            !.anim.ownDuration = opts.myDuration]
       IN  StartTimer(a2)

\* An updateAnimation that notifies on every call.
updateAnimationOn_AlwaysNotifies(a) ==
  LET aPts == a.timer.elapsed
      a1 == UpdateTimer(a)
  IN  IF aPts >= opts.myDuration
      THEN [a |-> [StopAnim(a1) EXCEPT !.anim.view = FALSE], ret |-> FALSE, finished |-> 1]
      ELSE [a |-> a1, ret |-> TRUE, finished |-> 1]

\* An updateAnimation that ends the session only after its duration.
updateAnimationOn_Late(a) ==
  LET aPts == a.timer.elapsed
      a1 == UpdateTimer(a)
  IN  IF aPts > opts.myDuration
      THEN [a |-> [StopAnim(a1) EXCEPT !.anim.view = FALSE], ret |-> FALSE, finished |-> 1]
      ELSE [a |-> a1, ret |-> TRUE, finished |-> 0]

\* AIS_ViewCube::updateAnimation: the state after it, its result and the number of
\* onAnimationFinished() calls.
updateAnimationOn(a) ==
  LET aPts == a.timer.elapsed
      a1 == UpdateTimer(a)
  IN  IF aPts >= opts.myDuration
      THEN [a |-> [StopAnim(a1) EXCEPT !.anim.view = FALSE], ret |-> FALSE, finished |-> 1]
      ELSE [a |-> a1, ret |-> TRUE, finished |-> 0]

\* AIS_ViewCube::UpdateAnimation: as updateAnimationOn, with the number of
\* onAfterAnimation() calls; the redraw of the view changes no state of the model.
UpdateAnimationOn(a, theToUpdate) ==
  IF ~HasAnimationIn(a)
  THEN [a |-> a, ret |-> FALSE, finished |-> 0, after |-> 0]
  ELSE LET r == updateAnimationOn(a)
       IN  [a |-> r.a, ret |-> r.ret, finished |-> r.finished,
            after |-> IF r.ret THEN 1 ELSE 0]


-----------------------------------------------------------------------------------------------------------------------------------------------------
(* Initial state *)

\* The camera of a new V3d_View: the default projection V3d_XposYnegZpos, not yet fitted.
DefaultCamera == Pose(<<-1, 1, -1>>, <<-1, 1, 2>>, 1, 1)

\* new Graphic3d_Camera(): the pose myStartState and myEndState are constructed with,
\* whatever the view shows.
NewCamera == Pose(<<0, 0, -1>>, <<0, 1, 0>>, 1000, 0)

\* Poses the user may turn the camera to between animations: the default one and a
\* side view rolled by 90 degrees.
CameraInputs ==
  { DefaultCamera,
    Pose(<<-1, 0, 0>>, <<0, 1, 0>>, 1, 1) }

\* The orientations clicked: two sides (V3d_Xpos, and V3d_Zpos with its own default
\* up) and a corner (V3d_XposYposZpos).
ClickOrientations == {0, 2, 18}

\* The arguments of a StartAnimation or HandleClick call on a cube that is displayed:
\* the owner, whether its context has a last active view, and whether it has a selection.
Request(theOwner, theHasView, theHasSelection) ==
  [owner |-> theOwner, hasContext |-> TRUE, hasView |-> theHasView,
   hasSelection |-> theHasSelection]

\* A call on a cube that is not displayed: GetContext() is null.
RequestOffContext(theOwner) ==
  [owner |-> theOwner, hasContext |-> FALSE, hasView |-> FALSE, hasSelection |-> FALSE]

Requests ==
  { Request(Owner(o), TRUE, FALSE) : o \in ClickOrientations }
    \cup { Request(Owner(0), TRUE, TRUE),
           Request(NullOwner, TRUE, FALSE), Request(Owner(0), FALSE, FALSE),
           RequestOffContext(NullOwner) }

\* What a call through a null handle comes to: the read of the member of an object at
\* address 0 ends the process, or it yields a null handle.
NullDereference == {"fault", "null"}

\* aView = GetContext()->LastActiveView(): the view, a null handle, or a fault.  The
\* handle of the context is not tested before it is used.
LastActiveView(theReq) ==
  IF theReq.hasContext THEN {IF theReq.hasView THEN "view" ELSE "null"}
  ELSE NullDereference

\* Whether StartAnimation goes past its guard with the request.
Proceeds(theReq) == theReq.owner # NullOwner /\ theReq.hasContext /\ theReq.hasView

Call(theOp, theArg, theRet, theFinished, theAfter) ==
  [op |-> theOp, arg |-> theArg, ret |-> theRet, finished |-> theFinished, after |-> theAfter]

Init ==
  /\ style = InitStyle.s
  /\ myToUpdate = InitStyle.upd
  /\ builtStyle = ConstructedStyle
  /\ lastError = "none"
  /\ opts = [ myToAutoStartAnim |-> TRUE, myIsFixedAnimation |-> TRUE,
              myToFitSelected |-> TRUE, myToResetCameraUp |-> FALSE,
              myDuration |-> DefaultDuration ]
  /\ myStartState = NewCamera
  /\ myEndState = NewCamera
  /\ anim = [state |-> "Stopped", view |-> FALSE, bound |-> FALSE, ownDuration |-> 0]
  /\ timer = [started |-> FALSE, elapsed |-> 0]
  /\ view = [camera |-> DefaultCamera, immediateUpdate |-> TRUE]
  /\ pc = "idle"
  /\ sessions = 0
  /\ lastCall = Call("AIS_ViewCube", <<>>, FALSE, 0, 0)

-----------------------------------------------------------------------------
(* Operations on the style *)

SetSize(theValue, theToAdaptAnother) ==
  /\ pc = "idle"
  /\ \E r \in { SetSizeResult(Styled(style, myToUpdate), theValue, theToAdaptAnother, rd) :
                 rd \in TieRoundings(SizeMembers) } :
       style' = r.s /\ myToUpdate' = r.upd
  /\ lastError' = "none"
  /\ lastCall' = Call("SetSize", <<theValue, theToAdaptAnother>>, FALSE, 0, 0)
  /\ UNCHANGED <<builtStyle, animVars>>

SetRoundRadius(theValue) ==
  /\ pc = "idle"
  /\ \E r \in { SetRoundRadiusResult(Styled(style, myToUpdate), theValue, rd) :
                 rd \in TieRoundings({"myRoundRadius"}) } :
       style' = r.s /\ myToUpdate' = r.upd /\ lastError' = r.err
  /\ lastCall' = Call("SetRoundRadius", <<theValue>>, FALSE, 0, 0)
  /\ UNCHANGED <<builtStyle, animVars>>

SetYup(theIsYup) ==
  /\ pc = "idle"
  /\ LET r == SetYupResult(Styled(style, myToUpdate), theIsYup)
     IN  style' = r.s /\ myToUpdate' = r.upd
  /\ lastError' = "none"
  /\ lastCall' = Call("SetYup", <<theIsYup>>, FALSE, 0, 0)
  /\ UNCHANGED <<builtStyle, animVars>>

ResetStyles ==
  /\ pc = "idle"
  /\ \E r \in { ResetStylesResult(Styled(style, myToUpdate), rd) :
                 rd \in TieRoundings(SizeMembers) } :
       style' = r.s /\ myToUpdate' = r.upd
  /\ lastError' = "none"
  /\ lastCall' = Call("ResetStyles", <<>>, FALSE, 0, 0)
  /\ UNCHANGED <<builtStyle, animVars>>

\* The presentation is computed anew from the current style once it is marked.
Recompute ==
  /\ pc = "idle"
  /\ myToUpdate
  /\ builtStyle' = style
  /\ myToUpdate' = FALSE
  /\ lastError' = "none"
  /\ lastCall' = Call("Compute", <<>>, FALSE, 0, 0)
  /\ UNCHANGED <<style, animVars>>

-----------------------------------------------------------------------------
(* Operations on the animation *)

\* The animation state a becomes the state of the widget.
Becomes(a) ==
  /\ myStartState' = a.start
  /\ myEndState' = a.end
  /\ anim' = a.anim
  /\ timer' = a.timer
  /\ view' = a.view

\* MaxSessions sessions are started in a run.
MayStart(theReq) == Proceeds(theReq) => sessions < MaxSessions

SessionsAfter(theReq) ==
  IF Proceeds(theReq) THEN sessions + 1 ELSE sessions

\* The call ends in a fault: nothing is written and nothing is run after it.
Faulted ==
  /\ pc' = "fault"
  /\ lastError' = "fault"
  /\ UNCHANGED <<myStartState, myEndState, anim, timer, view, sessions>>

StartAnimation(theReq) ==
  /\ pc = "idle"
  /\ MayStart(theReq)
  /\ \E aView \in LastActiveView(theReq) :
       IF aView = "fault" THEN Faulted
       ELSE /\ \E a \in {StartAnimationOn(Current, theReq.owner, aView = "view",
                                           theReq.hasSelection, rd) : rd \in Roundings} :
                   Becomes(a)
            /\ sessions' = SessionsAfter(theReq)
            /\ lastError' = "none"
            /\ pc' = pc
  /\ lastCall' = Call("StartAnimation", theReq, FALSE, 0, 0)
  /\ UNCHANGED <<styleVars, opts>>

UpdateAnimation(theToUpdate) ==
  /\ pc = "idle"
  /\ LET r == UpdateAnimationOn(Current, theToUpdate)
     IN  /\ Becomes(r.a)
         /\ sessions' = sessions
         /\ lastCall' = Call("UpdateAnimation", <<>>, r.ret, r.finished, r.after)
  /\ lastError' = "none"
  /\ UNCHANGED <<styleVars, opts, pc>>

\* A HandleClick that never enters its loop.
HandleClick_NoLoop(theReq) ==
  /\ pc = "idle"
  /\ opts.myToAutoStartAnim => MayStart(theReq)
  /\ IF ~opts.myToAutoStartAnim
     THEN lastError' = "none" /\ UNCHANGED <<myStartState, myEndState, anim, timer, view, sessions, pc>>
     ELSE \E aView \in LastActiveView(theReq) :
            IF aView = "fault" THEN Faulted
            ELSE \E a \in {StartAnimationOn(Current, theReq.owner, aView = "view",
                                            theReq.hasSelection, rd) : rd \in Roundings} :
                   /\ Becomes(a)
                   /\ sessions' = SessionsAfter(theReq)
                   /\ pc' = "idle"
                   /\ lastError' = "none"
  /\ lastCall' = Call("HandleClick", theReq, FALSE, 0, 0)
  /\ UNCHANGED <<styleVars, opts>>

\* HandleClick up to its loop: nothing without myToAutoStartAnim; else the session is
\* started, and with myIsFixedAnimation the loop is entered if there is an animation.
HandleClick(theReq) ==
  /\ pc = "idle"
  /\ opts.myToAutoStartAnim => MayStart(theReq)
  /\ IF ~opts.myToAutoStartAnim
     THEN lastError' = "none" /\ UNCHANGED <<myStartState, myEndState, anim, timer, view, sessions, pc>>
     ELSE \E aView \in LastActiveView(theReq) :
            IF aView = "fault" THEN Faulted
            ELSE \E a \in {StartAnimationOn(Current, theReq.owner, aView = "view",
                                            theReq.hasSelection, rd) : rd \in Roundings} :
                   /\ Becomes(a)
                   /\ sessions' = SessionsAfter(theReq)
                   /\ pc' = IF opts.myIsFixedAnimation /\ HasAnimationIn(a) THEN "loop" ELSE "idle"
                   /\ lastError' = "none"
  /\ lastCall' = Call("HandleClick", theReq, FALSE, 0, 0)
  /\ UNCHANGED <<styleVars, opts>>

\* One pass of the loop of HandleClick: UpdateAnimation (true), and the return once
\* HasAnimation() is false.
HandleClickLoop ==
  /\ pc = "loop"
  /\ \E r \in {UpdateAnimationOn(Current, TRUE)} :
         /\ Becomes(r.a)
         /\ sessions' = sessions
         /\ pc' = IF HasAnimationIn(r.a) THEN "loop" ELSE "idle"
         /\ lastCall' = Call("HandleClickLoop", <<>>, r.ret, r.finished, r.after)
  /\ lastError' = "none"
  /\ UNCHANGED <<styleVars, opts>>

\* Time passes on the running timer.
Tick ==
  /\ pc # "fault"
  /\ timer.started
  /\ timer.elapsed < MaxTime
  /\ timer' = [timer EXCEPT !.elapsed = @ + 1]
  /\ lastCall' = Call("Tick", <<>>, FALSE, 0, 0)
  /\ UNCHANGED <<styleVars, lastError, opts, myStartState, myEndState, anim, view, pc, sessions>>

\* The user turns the camera while no animation runs.
UserSetCamera(thePose) ==
  /\ pc = "idle"
  /\ ~HasAnimation
  /\ view.camera # thePose
  /\ view' = [view EXCEPT !.camera = thePose]
  /\ lastCall' = Call("UserSetCamera", <<>>, FALSE, 0, 0)
  /\ UNCHANGED <<styleVars, lastError, opts, myStartState, myEndState, anim, timer, pc, sessions>>

\* SetAutoStartAnimation, SetFixedAnimationLoop, SetFitSelected and SetResetCamera
\* (header): each assigns its member.
SetOption(theName, theValue) ==
  /\ pc = "idle"
  /\ opts[theName] # theValue
  /\ opts' = [opts EXCEPT ![theName] = theValue]
  /\ lastError' = "none"
  /\ lastCall' = Call("SetOption", <<theName, theValue>>, FALSE, 0, 0)
  /\ UNCHANGED <<styleVars, myStartState, myEndState, anim, timer, view, pc, sessions>>

-----------------------------------------------------------------------------
(* Specifications *)

\* The animation under StartAnimation and UpdateAnimation, with the members and the
\* camera StartAnimation reads.
Next ==
  \/ \E r \in Requests : StartAnimation(r)
  \/ \E b \in BOOLEAN : UpdateAnimation(b)
  \/ Tick
  \/ \E p \in CameraInputs : UserSetCamera(p)
  \/ \E b \in BOOLEAN : SetOption("myToResetCameraUp", b)

Spec == Init /\ [][Next]_vars

\* The animation under HandleClick in its two modes, stepped by UpdateAnimation.
\* The clicks of the HandleClick runs: a side with and without a selection, a corner, a
\* null owner and a cube without a view.  A click is on an owner picked in the context
\* of the cube, so the cube is displayed.
ClickRequests ==
  {Request(Owner(0), TRUE, TRUE), Request(Owner(0), TRUE, FALSE), Request(Owner(18), TRUE, FALSE),
   Request(NullOwner, TRUE, FALSE), Request(Owner(0), FALSE, FALSE)}

ClickNext ==
  \/ \E r \in ClickRequests : HandleClick(r)
  \/ HandleClickLoop
  \/ \E b \in BOOLEAN : UpdateAnimation(b)
  \/ Tick
  \/ \E n \in {"myToAutoStartAnim", "myIsFixedAnimation"}, b \in BOOLEAN : SetOption(n, b)

\* The timer advances and the loop of HandleClick keeps running.
ClickSpec == Init /\ [][ClickNext]_vars /\ WF_vars(Tick) /\ WF_vars(HandleClickLoop)

\* The style of the cube under its setters.
StyleNext ==
  \/ \E v \in SizeInputs, b \in BOOLEAN : SetSize(v, b)
  \/ \E v \in RadiusInputs : SetRoundRadius(v)
  \/ \E b \in BOOLEAN : SetYup(b)
  \/ ResetStyles
  \/ Recompute

StyleSpec == Init /\ [][StyleNext]_vars

\* StartAnimation from every camera pose, convention and up policy, for each of the 26
\* orientations: the end pose as a function of its inputs.
KeyPose(theOrient, theIsYup, theQuarter) ==
  LET d == Neg(GetProjAxis(theOrient))
      u == OrthogonalizedUp(DefaultUp(theOrient, theIsYup), d)
  IN  Pose(d, Reduce(Rotated(u, d, theQuarter).v), 5, 3)

\* The view of every orientation under either convention with every quarter roll, and
\* the poses half way between two side views (rolled by 45 degrees when the sides agree).
UpCameraInputs ==
  { KeyPose(o, y, q) : o \in Orientations, y \in BOOLEAN, q \in 0 .. 3 }
    \cup { Interpolate(KeyPose(o1, FALSE, 0), KeyPose(o2, FALSE, q), 1, 2) :
             o1 \in 0 .. 5, o2 \in 0 .. 5, q \in 0 .. 1 }

AllRequests == { Request(Owner(o), TRUE, FALSE) : o \in Orientations }

UpInit ==
  /\ \E y \in BOOLEAN : style = [InitStyle.s EXCEPT !.myIsYup = y]
  /\ myToUpdate = InitStyle.upd
  /\ builtStyle = ConstructedStyle
  /\ lastError = "none"
  /\ \E b \in BOOLEAN :
       opts = [ myToAutoStartAnim |-> TRUE, myIsFixedAnimation |-> TRUE,
                myToFitSelected |-> TRUE, myToResetCameraUp |-> b,
                myDuration |-> DefaultDuration ]
  /\ myStartState = NewCamera
  /\ myEndState = NewCamera
  /\ anim = [state |-> "Stopped", view |-> FALSE, bound |-> FALSE, ownDuration |-> 0]
  /\ timer = [started |-> FALSE, elapsed |-> 0]
  /\ \E p \in UpCameraInputs : view = [camera |-> p, immediateUpdate |-> TRUE]
  /\ pc = "idle"
  /\ sessions = 0
  /\ lastCall = Call("AIS_ViewCube", <<>>, FALSE, 0, 0)

UpNext == \E r \in AllRequests : lastCall.op = "AIS_ViewCube" /\ StartAnimation(r)

UpSpec == UpInit /\ [][UpNext]_vars

-----------------------------------------------------------------------------
(* Claims *)

\* The step is a StartAnimation call that goes past its guard.
StartProceeds ==
  /\ lastCall'.op = "StartAnimation"
  /\ StartAnimation(lastCall'.arg)
  /\ Proceeds(lastCall'.arg)

\* The step is an UpdateAnimation call.
UpdateStep == lastCall'.op = "UpdateAnimation" /\ UpdateAnimation(TRUE)

\* C1: every StartAnimation call that proceeds, also one made while a session runs,
\* leaves exactly the session of that call: its start pose is the view's camera as it
\* was at the call, its end pose is the one computed from that camera and the target of
\* the call alone, the animation is started on the view with its timer at 0.
C1_StartSupersedes ==
  [][StartProceeds =>
       LET r == lastCall'.arg
       IN  /\ myStartState' = view.camera
           /\ \E rd \in Roundings :
                myEndState' = EndPose(view.camera, MainOrientation(r.owner), style.myIsYup,
                                      opts.myToResetCameraUp,
                                      FitBox(opts.myToFitSelected, r.hasSelection), rd)
           /\ myEndState'.dir = Neg(GetProjAxis(MainOrientation(r.owner)))
           /\ anim' = [state |-> "Started", view |-> TRUE, bound |-> TRUE,
                       ownDuration |-> opts.myDuration]
           /\ timer' = [started |-> TRUE, elapsed |-> 0]]_vars

\* C1 witness: a session was started over a running one from a pose half way through it
\* (the scale 3 lies between the unfitted 1 and the scene's 5).
C1_Witness ==
  /\ lastCall.op = "StartAnimation"
  /\ Proceeds(lastCall.arg)
  /\ sessions = 2
  /\ HasAnimation
  /\ myStartState.scale = 3
  /\ myStartState # myEndState

\* C2: onAnimationFinished() is called once in a step that takes the widget from
\* animating to idle, and in no other step.
C2_FinishedOncePerTransition ==
  [][lastCall'.finished = (IF HasAnimation /\ ~HasAnimation' THEN 1 ELSE 0)]_vars

\* C2 witness: an UpdateAnimation call on the idle widget right after the one that
\* finished a session would be the second notification; here the first has been given.
C2_Witness ==
  /\ lastCall.op = "UpdateAnimation"
  /\ lastCall.finished = 1
  /\ ~HasAnimation
  /\ view.camera = myEndState

\* C3: UpdateAnimation on a running session returns false and leaves the widget idle
\* exactly when the elapsed time has reached the duration of the session, else returns
\* true with the session running; on the idle widget it returns false and changes nothing.
C3_UpdateResult ==
  [][UpdateStep =>
       IF HasAnimation
       THEN IF timer.elapsed >= anim.ownDuration
            THEN ~lastCall'.ret /\ ~HasAnimation' /\ ~anim'.view
            ELSE lastCall'.ret /\ HasAnimation'
       ELSE ~lastCall'.ret /\ UNCHANGED <<myStartState, myEndState, anim, timer, view>>]_vars

\* C3 witness: UpdateAnimation has just ended a session.
C3_Witness ==
  /\ lastCall.op = "UpdateAnimation"
  /\ ~lastCall.ret
  /\ lastCall.finished = 1
  /\ ~HasAnimation
  /\ ~timer.started

\* C4: StartAnimation with a null owner or without an active view, that of a cube
\* that is not displayed included, raises nothing and leaves both poses, the view and
\* the animation with its timer as they were.
C4_StartNoOp ==
  [][(lastCall'.op = "StartAnimation" /\ StartAnimation(lastCall'.arg)
        /\ (lastCall'.arg.owner = NullOwner \/ ~lastCall'.arg.hasView)) =>
       /\ UNCHANGED <<myStartState, myEndState, anim, timer, view>>
       /\ lastError' = "none"]_vars

\* C5: StartAnimation leaves the view's camera pose and its immediate-update flag as
\* they were when it was called.
C5_ViewUndisturbed ==
  [][(lastCall'.op = "StartAnimation" /\ StartAnimation(lastCall'.arg)) => view' = view]_vars

\* C5 witness: the end pose was fitted to the selection and differs from the camera.
C5_Witness ==
  /\ lastCall.op = "StartAnimation"
  /\ Proceeds(lastCall.arg)
  /\ lastCall.arg.hasSelection
  /\ myEndState.scale = SelectionBox.scale
  /\ myEndState # view.camera
  /\ view.immediateUpdate


\* The candidates of the closest-up search: the default up of the target turned about
\* the new direction by theQuarter quarter turns.
UpCandidate(theOrient, theIsYup, theQuarter) ==
  LET d == Neg(GetProjAxis(theOrient))
  IN  Rotated(OrthogonalizedUp(DefaultUp(theOrient, theIsYup), d), d, theQuarter)

\* theUp is one of the four candidates whose angle to theOld no candidate beats.
IsClosestUp(theUp, theOrient, theIsYup, theOld) ==
  \E q \in 0 .. 3 :
    /\ theUp = Reduce(UpCandidate(theOrient, theIsYup, q).v)
    /\ \A j \in 0 .. 3 :
         ~AngleLess(UpCandidate(theOrient, theIsYup, j), UpCandidate(theOrient, theIsYup, q), theOld)

\* theUp is the first of the four candidates whose angle to theOld no candidate beats.
IsFirstClosestUp(theUp, theOrient, theIsYup, theOld) ==
  \E q \in 0 .. 3 :
    /\ theUp = Reduce(UpCandidate(theOrient, theIsYup, q).v)
    /\ \A j \in 0 .. 3 :
         ~AngleLess(UpCandidate(theOrient, theIsYup, j), UpCandidate(theOrient, theIsYup, q), theOld)
    /\ \A j \in 0 .. 3 :
         j < q => AngleLess(UpCandidate(theOrient, theIsYup, q), UpCandidate(theOrient, theIsYup, j), theOld)

\* C6 as claimed: unless myToResetCameraUp is set, the up of the end pose is the first
\* closest candidate for every target, also one whose direction is that of the camera.
C6_Original ==
  [][(StartProceeds /\ ~opts.myToResetCameraUp) =>
       IsFirstClosestUp(myEndState'.up, MainOrientation(lastCall'.arg.owner),
                        style.myIsYup, view.camera.up)]_vars

\* C6: unless myToResetCameraUp is set, the up of the end pose is a closest candidate
\* for every target whose view direction differs from that of the camera, any of those
\* at the smallest angle when several are; for a target whose direction is that of the
\* camera it is the default up of the target.
C6_ClosestUp ==
  [][(StartProceeds /\ ~opts.myToResetCameraUp) =>
       LET o == MainOrientation(lastCall'.arg.owner)
       IN  IF IsEqualDir(Neg(GetProjAxis(o)), view.camera.dir)
           THEN myEndState'.up = Reduce(UpCandidate(o, style.myIsYup, 0).v)
           ELSE IsClosestUp(myEndState'.up, o, style.myIsYup, view.camera.up)]_vars

\* C6 witness: the direction changed and the up chosen is the default up turned by a
\* half turn, which is at the angle of the one turned by a quarter turn, a candidate
\* before it.
C6_Witness ==
  /\ lastCall.op = "StartAnimation"
  /\ ~opts.myToResetCameraUp
  /\ ~IsEqualDir(myStartState.dir, myEndState.dir)
  /\ LET o == MainOrientation(lastCall.arg.owner)
     IN  /\ myEndState.up = Reduce(UpCandidate(o, style.myIsYup, 2).v)
         /\ ~AngleLess(UpCandidate(o, style.myIsYup, 1), UpCandidate(o, style.myIsYup, 2), myStartState.up)
         /\ ~AngleLess(UpCandidate(o, style.myIsYup, 2), UpCandidate(o, style.myIsYup, 1), myStartState.up)

\* C7 as claimed: after a request for the direction the camera already has, the start
\* pose equals the end pose and the UpdateAnimation call that follows the request
\* reports the session finished.
C7_Original ==
  [][(UpdateStep /\ lastCall.op = "StartAnimation" /\ Proceeds(lastCall.arg)
        /\ IsEqualDir(myStartState.dir, myEndState.dir)) =>
       (myStartState = myEndState /\ ~lastCall'.ret /\ lastCall'.finished = 1)]_vars

\* C7: a request for the direction the camera already has starts a session of the
\* configured duration whose end pose has the direction of its start pose and the
\* default up of the target, and UpdateAnimation reports it finished exactly when the
\* elapsed time has reached that duration.
C7_SameDirection ==
  /\ [][(StartProceeds
           /\ IsEqualDir(Neg(GetProjAxis(MainOrientation(lastCall'.arg.owner))), view.camera.dir)) =>
          /\ IsEqualDir(myEndState'.dir, myStartState'.dir)
          /\ myEndState'.up = Reduce(UpCandidate(MainOrientation(lastCall'.arg.owner), style.myIsYup, 0).v)
          /\ HasAnimation'
          /\ anim'.ownDuration = opts.myDuration
          /\ opts.myDuration > 0]_vars
  /\ [][(UpdateStep /\ HasAnimation /\ IsEqualDir(myStartState.dir, myEndState.dir)) =>
          (lastCall'.finished = 1 <=> timer.elapsed >= opts.myDuration)]_vars

\* C7 witness: the session requested for the camera's own direction runs, and its end
\* pose differs from its start pose in the up.
C7_Witness ==
  /\ lastCall.op = "UpdateAnimation"
  /\ lastCall.ret
  /\ HasAnimation
  /\ IsEqualDir(myStartState.dir, myEndState.dir)
  /\ myStartState.up # myEndState.up

\* The step is a HandleClick call with myToAutoStartAnim set.
ClickStep ==
  /\ lastCall'.op = "HandleClick"
  /\ HandleClick(lastCall'.arg)
  /\ opts.myToAutoStartAnim

\* C8: with myToAutoStartAnim and myIsFixedAnimation HandleClick returns, as the timer
\* advances, and when it returns no animation runs and the session it ran has been
\* notified as finished; without myIsFixedAnimation it returns with the session just
\* started: running, its timer at 0, the camera not moved, nothing notified.
C8_HandleClick ==
  /\ (pc = "loop") ~> (pc = "idle")
  /\ [][(ClickStep /\ opts.myIsFixedAnimation /\ pc' = "idle") => ~HasAnimation']_vars
  /\ [][(pc = "loop" /\ pc' = "idle") => (~HasAnimation' /\ lastCall'.finished = 1)]_vars
  /\ [][(pc = "loop" /\ pc' = "loop") => (HasAnimation' /\ lastCall'.finished = 0)]_vars
  /\ [][(ClickStep /\ ~opts.myIsFixedAnimation /\ Proceeds(lastCall'.arg)) =>
          /\ pc' = "idle"
          /\ HasAnimation'
          /\ timer' = [started |-> TRUE, elapsed |-> 0]
          /\ view' = view
          /\ lastCall'.finished = 0]_vars

\* C8 witness: the loop of HandleClick has ended with the camera at the end pose.
C8_Witness ==
  /\ lastCall.op = "HandleClickLoop"
  /\ pc = "idle"
  /\ lastCall.finished = 1
  /\ ~HasAnimation
  /\ view.camera = myEndState
  /\ opts.myIsFixedAnimation

\* C9: SetRoundRadius with a value below 0 or above 0.5 raises Standard_OutOfRange and
\* leaves the round radius, the other style members and the update mark as they were.
C9_RadiusRejected ==
  [][(lastCall'.op = "SetRoundRadius" /\ SetRoundRadius(lastCall'.arg[1])
        /\ (lastCall'.arg[1] < 0 \/ lastCall'.arg[1] > RoundRadiusMax)) =>
       /\ lastError' = "Standard_OutOfRange"
       /\ style' = style
       /\ myToUpdate' = myToUpdate
       /\ builtStyle' = builtStyle]_vars

\* C9 witness: a call was rejected while the presentation was up to date and the radius
\* was not the default one.
C9_Witness ==
  /\ lastCall.op = "SetRoundRadius"
  /\ lastError = "Standard_OutOfRange"
  /\ ~myToUpdate
  /\ style.myRoundRadius > 0

\* C10: the round radius is within [0, 0.5] in every state the style setters reach.
C10_RadiusInRange == 0 <= style.myRoundRadius /\ style.myRoundRadius <= RoundRadiusMax

\* C10 witness: the radius is at its upper limit after a call above it was rejected.
C10_Witness ==
  /\ style.myRoundRadius = RoundRadiusMax
  /\ lastCall.op = "SetRoundRadius"
  /\ lastCall.arg[1] > RoundRadiusMax
  /\ lastError = "Standard_OutOfRange"


\* C11: whenever the presentation is not marked for update, the style it was last
\* computed from is the current style: every call that changes a style member has
\* marked it.
C11_StaleWhenChanged == ~myToUpdate => builtStyle = style


-----------------------------------------------------------------------------
(* The parts of the cube: classification, selection and picking *)

\* A count that ignores the sign of a component only when it is positive.
nbDirectionComponents_Positive(theDir) == Cardinality({i \in 1 .. 3 : theDir[i] > 0})

\* nbDirectionComponents: the number of components above gp::Resolution() in magnitude.
nbDirectionComponents(theDir) == Cardinality({i \in 1 .. 3 : Abs(theDir[i]) > 0})

IsBoxSide(theOrient) == nbDirectionComponents(GetProjAxis(theOrient)) = 1
IsBoxEdge(theOrient) == nbDirectionComponents(GetProjAxis(theOrient)) = 2
IsBoxCorner(theOrient) == nbDirectionComponents(GetProjAxis(theOrient)) = 3

\* A createBoxPartTriangles that builds edges whatever myToDisplayEdges is.
HasBoxPart_AllEdges(st, theOrient) ==
  \/ IsBoxSide(theOrient)
  \/ IsBoxEdge(theOrient)
  \/ IsBoxCorner(theOrient) /\ st.myToDisplayVertices

\* createBoxPartTriangles returns a non-null array: each of the three builders does.
HasBoxPart(st, theOrient) ==
  IF IsBoxSide(theOrient) THEN TRUE
  ELSE IF IsBoxEdge(theOrient) /\ st.myToDisplayEdges THEN TRUE
  ELSE IF IsBoxCorner(theOrient) /\ st.myToDisplayVertices THEN TRUE
  ELSE FALSE

\* The sensitivity ComputeSelection gives to the part of an orientation.
Sensitivity(theOrient) ==
  IF IsBoxCorner(theOrient) THEN 8 ELSE IF IsBoxEdge(theOrient) THEN 4 ELSE 2

\* The loop of ComputeSelection from aPartIter on: the sensitive elements added, each
\* with the orientation of its owner and its sensitivity factor.
RECURSIVE SelectionFrom(_, _)
SelectionFrom(st, aPartIter) ==
  IF aPartIter > 25 THEN <<>>
  ELSE (IF HasBoxPart(st, aPartIter)
        THEN <<[owner |-> Owner(aPartIter), sensitivity |-> Sensitivity(aPartIter)]>>
        ELSE <<>>) \o SelectionFrom(st, aPartIter + 1)

\* AIS_ViewCube::ComputeSelection: what it adds to the selection.
ComputeSelectionResult(st, theMode) == IF theMode # 0 THEN <<>> ELSE SelectionFrom(st, 0)


\* sin(10 degrees) squared as the fraction SinTolerNum / SinTolerDen, a convergent of
\* its continued fraction: 0.0301536896070458 to twenty places.
SinTolerNum == 39699285
SinTolerDen == 1316564756

\* a / b <= c / d for a, c >= 0 and b, d > 0, by the integer parts and then the
\* remainders, so that no product is formed.
RECURSIVE FractionLeq(_, _, _, _)
FractionLeq(a, b, c, d) ==
  IF a \div b # c \div d THEN a \div b < c \div d
  ELSE IF a % b = 0 THEN TRUE
  ELSE IF c % d = 0 THEN FALSE
  ELSE FractionLeq(d, c % d, b, a % b)

\* gp_Vec::IsNormal (theDir, anAngleToler) for the tolerance of 10 degrees: the angle
\* between the two is within the tolerance of a right angle, that is, the square of its
\* cosine is at most that of the sine of the tolerance.
IsNormal(theRay, theDir) ==
  FractionLeq(Dot(theRay, theDir) * Dot(theRay, theDir), Norm2(theRay) * Norm2(theDir),
              SinTolerNum, SinTolerDen)

\* A selecting volume: its active selection type, the vector from the near to the far
\* picked point, and what the triangles of the element answer to it.
Query(theType, theRay, theHit) == [type |-> theType, ray |-> theRay, hit |-> theHit]

\* An isValidRay that lets a rectangular selection through.
isValidRay_AnyType(theOrient, theQuery) == ~IsNormal(theQuery.ray, GetProjAxis(theOrient))

\* AIS_ViewCubeSensitive::isValidRay for an element owned by an AIS_ViewCubeOwner.
isValidRay(theOrient, theQuery) ==
  IF theQuery.type # "Point" THEN FALSE
  ELSE ~IsNormal(theQuery.ray, GetProjAxis(theOrient))

\* AIS_ViewCubeSensitive::Matches: the answer, and whether
\* Select3D_SensitivePrimitiveArray::Matches was evaluated for it.
MatchesResult(theOrient, theQuery) ==
  IF isValidRay(theOrient, theQuery)
  THEN [matches |-> theQuery.hit, tested |-> TRUE]
  ELSE [matches |-> FALSE, tested |-> FALSE]

\* Rays along the axes, a diagonal one, and rays on either side of 10 degrees from the
\* plane normal to the Y axis: at 9.65, 9.99997 and 10.2 degrees.
RayInputs ==
  {<<1, 0, 0>>, <<0, 0, 1>>, <<0, 0, -1>>, <<1, 1, 1>>, <<100, 17, 0>>, <<828, 146, 4>>,
   <<100, 18, 0>>}

Queries == {Query(t, r, h) : t \in {"Point", "Box"}, r \in RayInputs, h \in BOOLEAN}

\* SetDrawEdges and SetDrawVertices (header): assign the toggle and invalidate on a
\* change.
SetDraw(theName, theValue) ==
  /\ pc = "idle"
  /\ style[theName] # theValue
  /\ style' = [style EXCEPT ![theName] = theValue]
  /\ myToUpdate' = TRUE
  /\ lastError' = "none"
  /\ lastCall' = Call("SetDraw", <<theName, theValue>>, FALSE, 0, 0)
  /\ UNCHANGED <<builtStyle, animVars>>

\* IsBoxSide, IsBoxEdge and IsBoxCorner of one orientation.
Classify(theOrient) ==
  /\ pc = "idle"
  /\ lastError' = "none"
  /\ lastCall' = Call("Classify", <<theOrient>>,
                      <<IsBoxSide(theOrient), IsBoxEdge(theOrient), IsBoxCorner(theOrient)>>, 0, 0)
  /\ UNCHANGED <<styleVars, animVars>>

ComputeSelection(theMode) ==
  /\ pc = "idle"
  /\ lastError' = "none"
  /\ lastCall' = Call("ComputeSelection", <<theMode>>, ComputeSelectionResult(style, theMode), 0, 0)
  /\ UNCHANGED <<styleVars, animVars>>

\* Matches of the sensitive element ComputeSelection made for theOrient.
Matches(theOrient, theQuery) ==
  /\ pc = "idle"
  /\ HasBoxPart(style, theOrient)
  /\ lastError' = "none"
  /\ lastCall' = Call("Matches", <<theOrient, theQuery>>, MatchesResult(theOrient, theQuery), 0, 0)
  /\ UNCHANGED <<styleVars, animVars>>

PartNext ==
  \/ \E n \in {"myToDisplayEdges", "myToDisplayVertices"}, b \in BOOLEAN : SetDraw(n, b)
  \/ \E o \in Orientations : Classify(o)
  \/ \E m \in {0, 1} : ComputeSelection(m)
  \/ \E o \in Orientations, q \in Queries : Matches(o, q)

\* The parts of the cube under the display toggles.
PartSpec == Init /\ [][PartNext]_vars


\* The number of non-zero components of the projection axis of an orientation, counted
\* component by component.
NonZeroAxes(theOrient) ==
  LET a == GetProjAxis(theOrient)
  IN  (IF a[1] # 0 THEN 1 ELSE 0) + (IF a[2] # 0 THEN 1 ELSE 0) + (IF a[3] # 0 THEN 1 ELSE 0)

\* C12: for each of the 26 orientations exactly one of IsBoxSide, IsBoxEdge and
\* IsBoxCorner is true, the one for 1, 2 or 3 non-zero components of its axis; there
\* are 6 sides, 12 edges and 8 corners.
C12_Classification ==
  /\ lastCall.op = "Classify" =>
       LET o == lastCall.arg[1]
           r == lastCall.ret
       IN  /\ Cardinality({i \in 1 .. 3 : r[i]}) = 1
           /\ r[1] <=> NonZeroAxes(o) = 1
           /\ r[2] <=> NonZeroAxes(o) = 2
           /\ r[3] <=> NonZeroAxes(o) = 3
  /\ Cardinality({o \in Orientations : IsBoxSide(o)}) = 6
  /\ Cardinality({o \in Orientations : IsBoxEdge(o)}) = 12
  /\ Cardinality({o \in Orientations : IsBoxCorner(o)}) = 8

\* C12 witness: an orientation with a negative component was classified as an edge.
C12_Witness ==
  /\ lastCall.op = "Classify"
  /\ lastCall.ret = <<FALSE, TRUE, FALSE>>
  /\ \E i \in 1 .. 3 : GetProjAxis(lastCall.arg[1])[i] < 0

\* The orientation has a part under the toggles of the style st.
ExpectedPart(st, theOrient) ==
  \/ NonZeroAxes(theOrient) = 1
  \/ NonZeroAxes(theOrient) = 2 /\ st.myToDisplayEdges
  \/ NonZeroAxes(theOrient) = 3 /\ st.myToDisplayVertices

\* C13: ComputeSelection in mode 0 adds exactly one sensitive element for each
\* orientation that has a part (a side; an edge with edges displayed; a corner with
\* vertices displayed) and none for another; each has the orientation of its part as
\* owner and the sensitivity 2 (side), 4 (edge) or 8 (corner).
C13_SelectionRegions ==
  (lastCall.op = "ComputeSelection" /\ lastCall.arg[1] = 0) =>
    LET sel == lastCall.ret
    IN  /\ \A o \in Orientations :
             Cardinality({i \in 1 .. Len(sel) : sel[i].owner = Owner(o)})
               = IF ExpectedPart(style, o) THEN 1 ELSE 0
        /\ \A i \in 1 .. Len(sel) :
             /\ sel[i].owner # NullOwner
             /\ MainOrientation(sel[i].owner) \in Orientations
             /\ sel[i].sensitivity = 2 * NonZeroAxes(MainOrientation(sel[i].owner))
                                     + (IF NonZeroAxes(MainOrientation(sel[i].owner)) = 3 THEN 2 ELSE 0)
        /\ Len(sel) = 6 + (IF style.myToDisplayEdges THEN 12 ELSE 0)
                        + (IF style.myToDisplayVertices THEN 8 ELSE 0)

\* C13 witness: the selection was computed with the edges hidden and the corners
\* displayed: 14 elements.
C13_Witness ==
  /\ lastCall.op = "ComputeSelection"
  /\ lastCall.arg[1] = 0
  /\ ~style.myToDisplayEdges
  /\ style.myToDisplayVertices
  /\ Len(lastCall.ret) = 14

\* C14: Matches answers a query only if it is a point pick whose ray is not within 10
\* degrees of the plane normal to the projection axis of the element, and the triangles
\* are tested only then: a rectangular selection and a ray normal to the axis are
\* rejected untested, a ray along the axis is tested, and so is a ray 10.2 degrees from
\* the plane, while one 9.7 degrees from it is not.
C14_RayFilter ==
  lastCall.op = "Matches" =>
    LET axis == GetProjAxis(lastCall.arg[1])
        q == lastCall.arg[2]
        r == lastCall.ret
    IN  /\ r.matches => (r.tested /\ q.hit)
        /\ r.tested => (q.type = "Point" /\ ~IsNormal(q.ray, axis))
        /\ q.type # "Point" => ~r.tested
        /\ Dot(q.ray, axis) = 0 => ~r.tested
        /\ (q.type = "Point" /\ Cross(q.ray, axis) = ZeroVec) => (r.tested /\ r.matches = q.hit)
        /\ (q.type = "Point" /\ axis = <<0, 1, 0>> /\ q.ray = <<100, 18, 0>>) => r.tested
        /\ (axis = <<0, 1, 0>> /\ q.ray = <<100, 17, 0>>) => ~r.tested
        /\ (axis = <<0, 1, 0>> /\ q.ray = <<828, 146, 4>>) => ~r.tested

\* C14 witness: a point pick along a ray 10.2 degrees from the plane normal to the axis
\* of the element hit it.
C14_Witness ==
  /\ lastCall.op = "Matches"
  /\ GetProjAxis(lastCall.arg[1]) = <<0, 1, 0>>
  /\ lastCall.arg[2] = Query("Point", <<100, 18, 0>>, TRUE)
  /\ lastCall.ret.matches


-----------------------------------------------------------------------------
(* The triangles of the parts *)

\* THE_NB_ROUND_SPLITS
THE_NB_ROUND_SPLITS == 8
\* THE_NB_DISK_SLICES
THE_NB_DISK_SLICES == 20

\* a * b / Unit for 0 <= a, b < Unit, to the unit below: a and b are split at 10000,
\* whose square is 10 * Unit.
LowProduct(a, b) ==
  LET ah == a \div 10000
      al == a % 10000
      bh == b \div 10000
      bl == b % 10000
  IN  10 * ah * bh + (ah * bl + al * bh + (al * bl) \div 10000) \div 1000

\* The product of two fixed-point reals, towards 0 to the unit, taken in parts that are
\* each within the integers of the checker.
Product(x, y) ==
  LET a == Abs(x)
      b == Abs(y)
      p == (a \div Unit) * b + (a % Unit) * (b \div Unit) + LowProduct(a % Unit, b % Unit)
  IN  IF (x < 0) = (y < 0) THEN p ELSE -p

\* Cosines of the multiples of pi/16 up to pi/2, in units of 1e-7.
CosTable == <<10000000, 9807853, 9238795, 8314696, 7071068, 5555702, 3826834, 1950903, 0>>

\* Cos and Sin of theStep * pi/16, for any integer theStep.
Cos16(theStep) ==
  LET j == theStep % 32
      k == IF j > 16 THEN 32 - j ELSE j
  IN  IF k <= 8 THEN CosTable[k + 1] ELSE -CosTable[16 - k + 1]
Sin16(theStep) == Cos16(theStep - 8)

\* 10^7 / 2^7: a unit is 1 / (2^7 * FloatStep), so that a step of the single-precision
\* numbers is FloatStep / 2^j units for a whole j.
FloatStep == 78125

\* 2^23: a single-precision number is a number of steps from 2^23 to 2^24 - 1.
FloatMantissa == 8388608

\* theValue times a factor.
Scaled(theValue, theFactor) == Product(theValue, theFactor)

\* theValue * gp_XY (1.0, 1.0).Modulus() and theValue * Cos (M_PI_4)
TimesSqrt2(theValue) == Scaled(theValue, 14142136)
TimesCos45(theValue) == Scaled(theValue, 7071068)

\* What Product leaves below the unit, in units of 1 / Unit of a unit, for x and y
\* that are not negative.
ProductRest(x, y) ==
  LET ah == (x % Unit) \div 10000
      al == (x % Unit) % 10000
      bh == (y % Unit) \div 10000
      bl == (y % Unit) % 10000
  IN  (10000 * ((ah * bl + al * bh) % 1000) + al * bl) % Unit

\* x * y to the unit away from zero: it is zero, positive or negative when the product
\* of the doubles is.
ProductAway(x, y) ==
  LET p == Product(x, y)
  IN  IF ProductRest(Abs(x), Abs(y)) = 0 THEN p
      ELSE IF (x < 0) = (y < 0) THEN p + 1 ELSE p - 1

\* myRoundRadius * mySize: the product of a fraction and a length.  The code tests
\* whether it is positive, which it is from the smallest radius and size on.
RadiusOf(st) == ProductAway(st.myRoundRadius, st.mySize)

\* Half of a number of halves of a unit, to the unit towards zero.
Halved(theHalves) == IF theHalves < 0 THEN -((-theHalves) \div 2) ELSE theHalves \div 2

\* An array of triangles: its vertices in the plane of the part, before theTrsf, and
\* its indices, three for each triangle.
Triangles(theVertices, theEdges) == [vertices |-> theVertices, edges |-> theEdges]

\* The vertices of one rounded corner: THE_NB_ROUND_SPLITS + 1 nodes on the arc of
\* radius theRadius about (theX, theY) from theFrom * pi/16 downwards.  The centre and
\* the radius are in halves of a unit, the vertices in units.
RECURSIVE ArcFrom(_, _, _, _, _)
ArcFrom(theX, theY, theRadius, theFrom, aNodeIter) ==
  IF aNodeIter > THE_NB_ROUND_SPLITS THEN <<>>
  ELSE << <<Halved(theX + Scaled(theRadius, Cos16(theFrom - aNodeIter))),
            Halved(theY + Scaled(theRadius, Sin16(theFrom - aNodeIter)))>> >>
       \o ArcFrom(theX, theY, theRadius, theFrom, aNodeIter + 1)

\* "split triangle fan": the loop from aNodeIter on, and the three indices added after it.
RECURSIVE FanFrom(_, _)
FanFrom(aNodeIter, theNbNodes) ==
  IF aNodeIter > theNbNodes THEN <<1, theNbNodes, 2>>
  ELSE <<1, aNodeIter - 1, aNodeIter>> \o FanFrom(aNodeIter + 1, theNbNodes)

\* A radius that is not clamped.
ClampedRadius_None(theSize, theRadius) == 2 * theRadius

\* aRadius of createRoundRectangleTriangles, in halves of a unit: half of a side of a
\* whole number of units is a whole number of them, and it is positive when the side is.
ClampedRadius(theSize, theRadius) == Min(2 * theRadius, Min(theSize[1], theSize[2]))

\* aHSize of createRoundRectangleTriangles, in halves of a unit
HalfSize(theSize, theRadius) ==
  <<theSize[1] - ClampedRadius(theSize, theRadius),
    theSize[2] - ClampedRadius(theSize, theRadius)>>

\* AIS_ViewCube::createRoundRectangleTriangles
RoundRectangleTriangles(theSize, theRadius) ==
  LET aRadius == ClampedRadius(theSize, theRadius)
      aHSize == HalfSize(theSize, theRadius)
  IN  IF aRadius > 0
      THEN LET aVertices ==
                 << <<0, 0>> >>
                 \o ArcFrom( aHSize[1],  aHSize[2], aRadius,   8, 0)
                 \o ArcFrom( aHSize[1], -aHSize[2], aRadius,   0, 0)
                 \o ArcFrom(-aHSize[1], -aHSize[2], aRadius,  -8, 0)
                 \o ArcFrom(-aHSize[1],  aHSize[2], aRadius, -16, 0)
           IN  Triangles(aVertices, FanFrom(2, Len(aVertices)))
      ELSE LET x == Halved(aHSize[1])
               y == Halved(aHSize[2])
           IN  Triangles(<< <<-x, -y>>, <<-x, y>>, <<x, y>>, <<x, -y>> >>,
                         <<3, 1, 2, 1, 3, 4>>)


\* A part of the cube: its triangles and the distance of its plane from the centre
\* along the projection axis of its orientation.
BoxPart(theKind, theTris, theOffset) == [kind |-> theKind, tris |-> theTris, offset |-> theOffset]
NoPart == [kind |-> "null"]

\* AIS_ViewCube::createBoxSideTriangles
BoxSideTriangles(st, theOrient) ==
  BoxPart("side", RoundRectangleTriangles(<<st.mySize, st.mySize>>, RadiusOf(st)),
          st.mySize \div 2 + st.myBoxFacetExtension)

\* AIS_ViewCube::createBoxEdgeTriangles
BoxEdgeTriangles(st, theOrient) ==
  LET aThickness == Max(TimesSqrt2(st.myBoxFacetExtension) - st.myBoxEdgeGap, st.myBoxEdgeMinSize)
  IN  BoxPart("edge", RoundRectangleTriangles(<<aThickness, st.mySize>>, RadiusOf(st)),
              TimesSqrt2(st.mySize \div 2) + TimesCos45(st.myBoxFacetExtension))

\* gp_Dir (x, 0, 0), gp_Dir (0, y, 0) and gp_Dir (0, 0, z) for the components of a
\* corner direction: the unit vector of axis theAxis with the sign of the component.
AxisDir(theDir, theAxis) ==
  [i \in 1 .. 3 |-> IF i = theAxis THEN (IF theDir[i] < 0 THEN -1 ELSE 1) ELSE 0]

\* theValue * 2^j / FloatStep as a whole number q in 2^23 .. 2^24 - 1 and a rest r
\* below FloatStep, for the least j that brings q there: the value of theValue units is
\* q + r / FloatStep steps of the single-precision numbers of its size, and one step is
\* FloatStep / 2^j units.
RECURSIVE FloatGrid(_, _, _)
FloatGrid(q, r, j) ==
  IF q >= FloatMantissa THEN [q |-> q, r |-> r, j |-> j]
  ELSE FloatGrid(2 * q + (2 * r) \div FloatStep, (2 * r) % FloatStep, j + 1)

\* The magnitude of a coordinate as Graphic3d_ArrayOfPrimitives keeps it: AddVertex stores it as a
\* Standard_ShortReal, the nearest number of 24 binary digits, and Vertice returns that
\* number.  It is given here to the nearest unit; numbers whose step is below two units
\* apart stay what they are.
StoredMagnitude(theValue) ==
  IF theValue = 0 THEN 0
  ELSE LET g == FloatGrid(theValue \div FloatStep, theValue % FloatStep, 0)
           c == IF 2 * g.r > FloatStep THEN FloatStep - g.r ELSE -g.r
       IN  IF g.j > 17 THEN theValue
           ELSE theValue + (2 * c + 2^g.j) \div 2^(g.j + 1)

StoredFloat(theValue) ==
  IF theValue < 0 THEN -StoredMagnitude(-theValue) ELSE StoredMagnitude(theValue)

\* A vertex as the array keeps it.
StoredVertex(thePnt) == [i \in 1 .. 3 |-> StoredFloat(thePnt[i])]

\* aNormTri of createBoxCornerTriangles for the nodes in the order given, up to a
\* positive factor: the cross product of the two edges, each divided by the gcd of its
\* components.  It is zero when aNormTri is, and has its direction otherwise.
TriangleNormal(aNode1, aNode2, aNode3) ==
  Cross(Reduce(Plus(aNode2, Neg(aNode1))), Reduce(Plus(aNode3, Neg(aNode1))))

\* The indices of the triangle of a corner: 1, 3, 2 when aNormTri points inwards.
CornerEdges(theNormTri, theDir) ==
  IF Dot(theNormTri, theDir) < 0 THEN <<1, 3, 2>> ELSE <<1, 2, 3>>

\* AIS_ViewCube::createBoxCornerTriangles: a disk of Prs3d_ToolDisk for a rounded cube,
\* else one triangle.  aDir.XYZ() * (aHSize * |(1,1,1)|) is aHSize along each axis.
BoxCornerTriangles(st, theOrient) ==
  LET aHSize == st.mySize \div 2
      aDir == GetProjAxis(theOrient)
      aHSizeDir == Times(aHSize, aDir)
  IN  IF st.myRoundRadius > 0
      THEN [kind |-> "disk",
            radius |-> Max(TimesSqrt2(st.myBoxFacetExtension) \div 2, st.myCornerMinSize),
            slices |-> THE_NB_DISK_SLICES,
            offset |-> Scaled(aHSize, 17320508)
                         + Scaled(TimesSqrt2(st.myBoxFacetExtension) \div 2, 8164966)]
      ELSE LET aVertices ==
                 << StoredVertex(Plus(aHSizeDir, Times(st.myBoxFacetExtension, AxisDir(aDir, 1)))),
                    StoredVertex(Plus(aHSizeDir, Times(st.myBoxFacetExtension, AxisDir(aDir, 2)))),
                    StoredVertex(Plus(aHSizeDir, Times(st.myBoxFacetExtension, AxisDir(aDir, 3)))) >>
               aNormTri == TriangleNormal(aVertices[1], aVertices[2], aVertices[3])
           IN  BoxPart("corner", Triangles(aVertices, CornerEdges(aNormTri, aDir)), 0)

\* AIS_ViewCube::createBoxPartTriangles
BoxPartTriangles(st, theOrient) ==
  IF IsBoxSide(theOrient) THEN BoxSideTriangles(st, theOrient)
  ELSE IF IsBoxEdge(theOrient) /\ st.myToDisplayEdges THEN BoxEdgeTriangles(st, theOrient)
  ELSE IF IsBoxCorner(theOrient) /\ st.myToDisplayVertices THEN BoxCornerTriangles(st, theOrient)
  ELSE NoPart


\* SetBoxFacetExtension (header) as an operation.
SetFacetExtension(theValue) ==
  /\ pc = "idle"
  /\ \E r \in { SetBoxFacetExtension(Styled(style, myToUpdate), Fine(theValue, 0), rd) :
                 rd \in TieRoundings({"myBoxFacetExtension"}) } :
       style' = r.s /\ myToUpdate' = r.upd
  /\ lastError' = "none"
  /\ lastCall' = Call("SetBoxFacetExtension", <<theValue>>, FALSE, 0, 0)
  /\ UNCHANGED <<builtStyle, animVars>>

createRoundRectangleTriangles(theSize, theRadius) ==
  /\ pc = "idle"
  /\ lastError' = "none"
  /\ lastCall' = Call("createRoundRectangleTriangles", <<theSize, theRadius>>,
                      RoundRectangleTriangles(theSize, theRadius), 0, 0)
  /\ UNCHANGED <<styleVars, animVars>>

createBoxPartTriangles(theOrient) ==
  /\ pc = "idle"
  /\ lastError' = "none"
  /\ lastCall' = Call("createBoxPartTriangles", <<theOrient>>, BoxPartTriangles(style, theOrient), 0, 0)
  /\ UNCHANGED <<styleVars, animVars>>

\* Rectangles: a side, an edge, one of no width, one a unit wide and a low one; radii
\* below 0, 0, the smallest, small, half the side and above it.
RectangleSizes ==
  {<<70 * Unit, 70 * Unit>>, <<2 * Unit, 70 * Unit>>, <<0, 70 * Unit>>, <<1, 70 * Unit>>,
   <<70 * Unit, 20 * Unit>>}
RectangleRadii == {-Unit, 0, 1, Unit, 35 * Unit, 50 * Unit}

\* Styles of the parts: a size below 1 and one above, no, the smallest and the greatest
\* round radius, and no facet extension, one below the step of the stored coordinates
\* and one below a thousandth besides the ones SetSize derives.
MeshSizes == {3 * 1000 * 1000, 70 * Unit}
MeshRadii == {0, 1, RoundRadiusMax}
MeshExtensions == {0, 10, 9999}

MeshNext ==
  \/ \E v \in MeshSizes, b \in BOOLEAN : SetSize(v, b)
  \/ \E v \in MeshRadii : SetRoundRadius(v)
  \/ \E v \in MeshExtensions : SetFacetExtension(v)
  \/ \E sz \in RectangleSizes, r \in RectangleRadii : createRoundRectangleTriangles(sz, r)
  \/ \E o \in Orientations : createBoxPartTriangles(o)

\* The triangles of the parts under the style setters.
MeshSpec == Init /\ [][MeshNext]_vars


\* C15: createRoundRectangleTriangles uses a radius of at most half the shorter side;
\* when that radius is 0 it returns 4 vertices, the corners at plus and minus half the
\* width and height, and 2 triangles; when it is positive it returns
\* 4 (THE_NB_ROUND_SPLITS + 1) + 1 = 37 vertices; the half-extents about which the
\* corners are rounded are never negative.
C15_RoundRectangleSize ==
  lastCall.op = "createRoundRectangleTriangles" =>
    LET w == lastCall.arg[1][1]
        h == lastCall.arg[1][2]
        side == IF w < h THEN w ELSE h
        \* twice the radius used: half a side may be half a unit
        r == IF 2 * lastCall.arg[2] < side THEN 2 * lastCall.arg[2] ELSE side
        v == lastCall.ret.vertices
        e == lastCall.ret.edges
    IN  /\ r = 0 => /\ Len(v) = 4
                    /\ Len(e) = 6
                    /\ {v[i] : i \in 1 .. 4}
                         = {<<x, y>> : x \in {w \div 2, -(w \div 2)}, y \in {h \div 2, -(h \div 2)}}
                    /\ {e[1], e[2], e[3]} \cup {e[4], e[5], e[6]} = 1 .. 4
                    /\ Cardinality({e[1], e[2], e[3]}) = 3
                    /\ Cardinality({e[4], e[5], e[6]}) = 3
        /\ r > 0 => /\ Len(v) = 4 * (THE_NB_ROUND_SPLITS + 1) + 1
                    /\ w - r >= 0
                    /\ h - r >= 0
                    /\ v[2][1] = (w - r) \div 2
                    /\ v[THE_NB_ROUND_SPLITS + 2][2] = (h - r) \div 2
        /\ r <= 0 => (Len(v) = 4 /\ v[3][1] >= 0 /\ v[3][2] >= 0)

\* C15 witness: a radius of 1 on a rectangle one unit wide was clamped to half a unit,
\* which is positive: the rectangle is rounded about half-extents of 0 and of half the
\* height less half a unit.
C15_Witness ==
  /\ lastCall.op = "createRoundRectangleTriangles"
  /\ lastCall.arg = <<<<1, 70 * Unit>>, Unit>>
  /\ Len(lastCall.ret.vertices) = 4 * (THE_NB_ROUND_SPLITS + 1) + 1
  /\ lastCall.ret.vertices[2][1] = 0
  /\ lastCall.ret.vertices[THE_NB_ROUND_SPLITS + 2][2] = 35 * Unit - 1

\* The triangles of an index list, each as the tuple of its three indices.
TrianglesOf(theEdges) ==
  {<<theEdges[3 * k - 2], theEdges[3 * k - 1], theEdges[3 * k]>> : k \in 1 .. (Len(theEdges) \div 3)}

\* C16: for a positive radius the indices of createRoundRectangleTriangles are a closed
\* fan about vertex 1: the triangles (1, i, i + 1) for the perimeter vertices i from 2
\* to the last but one and the triangle (1, last, 2), and no other; each triangle has
\* three distinct indices and each perimeter vertex is in exactly two triangles.
C16_ClosedFan ==
  (lastCall.op = "createRoundRectangleTriangles" /\ Len(lastCall.ret.vertices) > 4) =>
    LET n == Len(lastCall.ret.vertices)
        e == lastCall.ret.edges
    IN  /\ Len(e) = 3 * (n - 1)
        /\ TrianglesOf(e) = {<<1, i, i + 1>> : i \in 2 .. n - 1} \cup {<<1, n, 2>>}
        /\ \A k \in 1 .. (Len(e) \div 3) :
             Cardinality({e[3 * k - 2], e[3 * k - 1], e[3 * k]}) = 3
        /\ \A i \in 2 .. n :
             Cardinality({k \in 1 .. (Len(e) \div 3) :
                            i \in {e[3 * k - 2], e[3 * k - 1], e[3 * k]}}) = 2

\* The normal of the triangle of a corner part, from its vertices in the order of its
\* indices, times the direction of the corner.
CornerDot(thePart, theOrient) ==
  LET v == thePart.tris.vertices
      e == thePart.tris.edges
  IN  Dot(TriangleNormal(v[e[1]], v[e[2]], v[e[3]]), GetProjAxis(theOrient))

\* C17 as claimed: for every corner, size and facet extension the part of a cube that
\* is not rounded is one triangle whose normal, in the order of its indices, has a
\* positive dot product with the direction of the corner.
C17_Original ==
  (lastCall.op = "createBoxPartTriangles" /\ lastCall.ret.kind = "corner") =>
    /\ Len(lastCall.ret.tris.vertices) = 3
    /\ Len(lastCall.ret.tris.edges) = 3
    /\ CornerDot(lastCall.ret, lastCall.arg[1]) > 0

-----------------------------------------------------------------------------
(* The notifications of a derived widget *)

\* What an overridden onAnimationFinished() or onAfterAnimation() does: nothing, or a
\* call of StartAnimation with the request.
Hook(theStarts, theReq) == [starts |-> theStarts, req |-> theReq]
NoHook == Hook(FALSE, Request(NullOwner, FALSE, FALSE))
Hooks ==
  {NoHook, Hook(TRUE, Request(Owner(0), TRUE, FALSE)), Hook(TRUE, Request(Owner(18), TRUE, FALSE))}

\* The notification run on the state a.
Notified(a, theHook, theRounding) ==
  IF theHook.starts
  THEN StartAnimationOn(a, theHook.req.owner, theHook.req.hasView, theHook.req.hasSelection,
                        theRounding)
  ELSE a

\* AIS_ViewCube::updateAnimation with the onAnimationFinished() of the derived widget:
\* the animation is stopped, the notification runs, and the view is detached after it.
updateAnimationWith(a, theOnFinished, theRounding) ==
  LET aPts == a.timer.elapsed
      a1 == UpdateTimer(a)
  IN  IF aPts >= opts.myDuration
      THEN [a |-> [Notified(StopAnim(a1), theOnFinished, theRounding) EXCEPT !.anim.view = FALSE],
            ret |-> FALSE, finished |-> 1]
      ELSE [a |-> a1, ret |-> TRUE, finished |-> 0]

\* AIS_ViewCube::UpdateAnimation with both notifications of the derived widget:
\* onAfterAnimation() runs last, after an updateAnimation that answered true.
UpdateAnimationWith(a, theToUpdate, theOnFinished, theOnAfter, theRounding) ==
  IF ~HasAnimationIn(a)
  THEN [a |-> a, ret |-> FALSE, finished |-> 0, after |-> 0]
  ELSE LET r == updateAnimationWith(a, theOnFinished, theRounding)
       IN  [a |-> IF r.ret THEN Notified(r.a, theOnAfter, theRounding) ELSE r.a,
            ret |-> r.ret, finished |-> r.finished,
            after |-> IF r.ret THEN 1 ELSE 0]

\* The notification of the call that ran, if one did.
HookRun(theResult, theOnFinished, theOnAfter) ==
  IF theResult.finished = 1 THEN theOnFinished
  ELSE IF theResult.after = 1 THEN theOnAfter
  ELSE NoHook

\* UpdateAnimation on a derived widget whose notifications are the two hooks.
UpdateAnimationDerived(theToUpdate, theOnFinished, theOnAfter) ==
  /\ pc = "idle"
  /\ \E r \in {UpdateAnimationWith(Current, theToUpdate, theOnFinished, theOnAfter, rd) :
                rd \in Roundings} :
       \E h \in {HookRun(r, theOnFinished, theOnAfter)} :
         /\ h.starts => MayStart(h.req)
         /\ Becomes(r.a)
         /\ sessions' = IF h.starts THEN SessionsAfter(h.req) ELSE sessions
         /\ lastCall' = Call("UpdateAnimation", <<theOnFinished, theOnAfter>>,
                             r.ret, r.finished, r.after)
  /\ lastError' = "none"
  /\ UNCHANGED <<styleVars, opts, pc>>

\* The animation of a derived widget: sessions are started by the application and by
\* the notifications.
HookNext ==
  \/ \E r \in ClickRequests : StartAnimation(r)
  \/ \E b \in BOOLEAN : \E f \in Hooks : \E g \in Hooks : UpdateAnimationDerived(b, f, g)
  \/ Tick
  \/ \E p \in CameraInputs : UserSetCamera(p)

HookSpec == Init /\ [][HookNext]_vars

\* C18: in every reachable state the animation holds a view exactly when a session
\* is active, also when a notification of UpdateAnimation requests a new
\* reorientation.
C18_ViewIffSession == anim.view <=> HasAnimation

====
